---- MODULE Spec2Model ----
(***************************************************************************)
(* The leveling and economy engine of the XP bot (src/api/bot.py): the    *)
(* users table, the transactions and level_ups logs, and the handlers     *)
(* that change them (message reward, daily reward, shop purchase, rank    *)
(* upgrade, and the commands that only look a user up).                   *)
(*                                                                         *)
(* Time is a calendar day (today); the time of day a handler runs at is   *)
(* an input of the handler.  The two logs are tables of rows: a bag of    *)
(* rows without their timestamp column.                                   *)
(*                                                                         *)
(* Specifications:                                                         *)
(*   Spec       one user on an empty store, events handled one at a time,  *)
(*              far enough to afford the cheapest shop item                *)
(*   SpecTwo    two users on an empty store within one day                 *)
(*   SpecCalc   the reward arithmetic of daily_command on its own          *)
(*   SpecDaily  Spec on a store that holds a row with last_daily set       *)
(*   SpecConc   two handlers interleaved at their store calls              *)
(*   SpecStored one user whose row holds the coins of many messages        *)
(*   SpecFault  serial handlers, one store call of an event may raise      *)
(***************************************************************************)
EXTENDS Integers, Sequences, FiniteSets, Bags, TLC

VARIABLES
    users,          \* table 'users': user_id -> row (only the ids that have a row)
    transactions,   \* table 'transactions': bag of rows
    level_ups,      \* table 'level_ups': bag of rows
    today,          \* datetime.now().date(), as a day number
    msgs,           \* qualifying messages handled so far (bounds the run)
    reply,          \* outcome of the handler that ran last
    calc,           \* argument and result of the last evaluation of a pure function
    pc,             \* per concurrent handler: the store call it is about to make
    loc             \* per concurrent handler: its local variables

vars == <<users, transactions, level_ups, today, msgs, reply, calc, pc, loc>>

-----------------------------------------------------------------------------
(* Bounds of the model *)

MaxMsgs == 128
MaxTwoMsgs == 22
MaxDay == 2
MaxStreak == 110
MaxStoredStreak == 3
MaxConcEvents == 3
MaxStoredMsgs == 2
MaxXp == 1400
MaxLevel == 12
MaxStoredBuys == 2
MaxFaultMsgs == 2
MaxFaultBuys == 2

UserIds == {1}
Procs == {1, 2}
TwoUserIds == {1, 2}
AllUserIds == UserIds \cup TwoUserIds
SecondsOfDay == {0, 3661, 86399}

-----------------------------------------------------------------------------
(* Config, bot.py:31-65 *)

XP_PER_MESSAGE == 5
COINS_PER_MESSAGE == 2
DAILY_REWARD_COINS == 100
DAILY_REWARD_XP == 50
BASE_XP == 100
\* XP_MULTIPLIER = 1.5, as the fraction 3/2
XP_MULTIPLIER_NUM == 3
XP_MULTIPLIER_DEN == 2

RANK_PRICES == [VIP |-> 5000, Premium |-> 15000, Admin |-> 50000]

\* SHOP_ITEMS in insertion order, the order list(Config.SHOP_ITEMS.keys()) gives
SHOP_ITEMS ==
    << [name |-> "Double XP (1 hour)",        price |-> 500,  type |-> "boost"],
       [name |-> "Coin Multiplier (1 hour)",  price |-> 750,  type |-> "boost"],
       [name |-> "Custom Title",              price |-> 2000, type |-> "cosmetic"],
       [name |-> "Profile Theme",             price |-> 1500, type |-> "cosmetic"],
       [name |-> "Achievement Badge",         price |-> 3000, type |-> "cosmetic"] >>

STARTING_COINS == 100
LEVEL_UP_BONUS == 50
STREAK_BONUS_STEP == 10
MAX_STREAK_BONUS == 200
SECONDS_PER_DAY == 86400

\* None in the last_daily column
None == -1
\* None in a name column
NoName == <<>>

-----------------------------------------------------------------------------
(* Pure functions *)

\* the while loop of calculate_level leaving the loop one step late (> for >=)
RECURSIVE calculate_level_loop_strict(_, _, _)
calculate_level_loop_strict(xp, level, required_xp) ==
    IF xp > required_xp
    THEN calculate_level_loop_strict(xp - required_xp, level + 1,
                              (required_xp * XP_MULTIPLIER_NUM) \div XP_MULTIPLIER_DEN)
    ELSE level

\* the while loop of calculate_level: int(required_xp * 1.5) truncates
RECURSIVE calculate_level_loop(_, _, _)
calculate_level_loop(xp, level, required_xp) ==
    IF xp >= required_xp
    THEN calculate_level_loop(xp - required_xp, level + 1,
                              (required_xp * XP_MULTIPLIER_NUM) \div XP_MULTIPLIER_DEN)
    ELSE level

calculate_level(xp) == calculate_level_loop(xp, 1, BASE_XP)

\* the for loop of calculate_xp_for_level, for i in range(i, level)
RECURSIVE calculate_xp_for_level_loop(_, _, _, _)
calculate_xp_for_level_loop(i, level, total, required_xp) ==
    IF i < level
    THEN calculate_xp_for_level_loop(i + 1, level, total + required_xp,
                              (required_xp * XP_MULTIPLIER_NUM) \div XP_MULTIPLIER_DEN)
    ELSE total

\* the for loop rounding required_xp * 1.5 up
RECURSIVE calculate_xp_for_level_loop_rounded(_, _, _, _)
calculate_xp_for_level_loop_rounded(i, level, total, required_xp) ==
    IF i < level
    THEN calculate_xp_for_level_loop_rounded(i + 1, level, total + required_xp,
            (required_xp * XP_MULTIPLIER_NUM + XP_MULTIPLIER_DEN - 1) \div XP_MULTIPLIER_DEN)
    ELSE total

\* calculate_xp_for_level rounding each requirement up
calculate_xp_for_level_rounded(level) ==
    calculate_xp_for_level_loop_rounded(1, level, 0, BASE_XP)

\* calculate_xp_for_level counting the requirement of `level` itself,
\* range(1, level + 1)
calculate_xp_for_level_inclusive(level) ==
    calculate_xp_for_level_loop(1, level + 1, 0, BASE_XP)

\* calculate_xp_for_level: the requirements of levels 1 .. level - 1 summed
calculate_xp_for_level(level) == calculate_xp_for_level_loop(1, level, 0, BASE_XP)

Min(a, b) == IF a <= b THEN a ELSE b

\* streak_bonus without its cap
streak_bonus_uncapped(streak) == streak * STREAK_BONUS_STEP

\* daily_command: streak_bonus = min(streak * 10, 200)
streak_bonus(streak) == Min(streak * STREAK_BONUS_STEP, MAX_STREAK_BONUS)

\* daily_command: total_coins = base_coins + (base_coins * streak_bonus // 100)
total_coins(streak) ==
    DAILY_REWARD_COINS + ((DAILY_REWARD_COINS * streak_bonus(streak)) \div 100)

\* daily_command: total_xp = base_xp + (base_xp * streak_bonus // 100)
total_xp(streak) ==
    DAILY_REWARD_XP + ((DAILY_REWARD_XP * streak_bonus(streak)) \div 100)

\* time_until_next_day at `secs` seconds after midnight: "{hours}h {minutes}m".
\* timedelta.seconds is the seconds part only: at midnight sharp diff is one
\* whole day and diff.seconds is 0.
time_until_next_day(secs) ==
    LET diff_seconds == (SECONDS_PER_DAY - secs) % SECONDS_PER_DAY
        hours == diff_seconds \div 3600
        minutes == (diff_seconds % 3600) \div 60
    IN  <<hours, "h ", minutes, "m">>

-----------------------------------------------------------------------------
(* The store *)

UserName(u) == <<"user", u>>
FirstName(u) == <<"first", u>>

\* the row get_or_create_user inserts
new_user(user_id, username, first_name) ==
    [user_id |-> user_id, username |-> username, first_name |-> first_name,
     xp |-> 0, level |-> 1, coins |-> STARTING_COINS, rank |-> "Newbie",
     last_daily |-> None, daily_streak |-> 0, total_messages |-> 0,
     join_date |-> today, last_active |-> today]

\* get_or_create_user inserting the default row over a row that exists
get_or_create_user_upsert(tbl, user_id, username, first_name) ==
    [id \in DOMAIN tbl \cup {user_id} |->
        IF id = user_id THEN new_user(user_id, username, first_name) ELSE tbl[id]]

\* get_or_create_user: the table after the call (the row is tbl[user_id])
get_or_create_user(tbl, user_id, username, first_name) ==
    IF user_id \in DOMAIN tbl
    THEN tbl
    ELSE tbl @@ (user_id :> new_user(user_id, username, first_name))

\* log_transaction: the row inserted into 'transactions'
transaction_row(user_id, transaction_type, amount, description) ==
    [user_id |-> user_id, type |-> transaction_type, amount |-> amount,
     description |-> description]

log_transaction(tbl, user_id, transaction_type, amount, description) ==
    tbl (+) SetToBag({transaction_row(user_id, transaction_type, amount, description)})

\* log_level_up: the row inserted into 'level_ups'
level_up_row(user_id, old_level, new_level) ==
    [user_id |-> user_id, old_level |-> old_level, new_level |-> new_level]

log_level_up(tbl, user_id, old_level, new_level) ==
    tbl (+) SetToBag({level_up_row(user_id, old_level, new_level)})

\* what a handler reports back: the handler, the user, the branch it took,
\* the reason and time_left of a refused daily claim, the amount involved
Reply(op, user_id, status, reason, time_left, amount) ==
    [op |-> op, user |-> user_id, status |-> status, reason |-> reason,
     time_left |-> time_left, amount |-> amount]

NoReply == Reply("none", 0, "none", "", <<>>, 0)
NoCalc == [fn |-> "none", arg |-> 0, coins |-> 0, xp |-> 0,
           level |-> 0, total_xp |-> 0, next_xp |-> 0]
NoRow == [user_id |-> 0]
NoLocal == [user |-> 0, row |-> NoRow, price |-> 0, name |-> ""]

-----------------------------------------------------------------------------
(* Ledger: update_user_xp *)

\* update_user_xp writing the xp without recomputing the level
update_user_xp_stale_level(tbl, lups, user_id, xp_gain, coins_gain) ==
    LET tbl1 == get_or_create_user(tbl, user_id, NoName, NoName)
        user == tbl1[user_id]
        tbl2 == [tbl1 EXCEPT ![user_id] =
                    [@ EXCEPT !.xp = user.xp + xp_gain, !.coins = user.coins + coins_gain,
                              !.total_messages = user.total_messages + 1,
                              !.last_active = today]]
    IN  [users |-> tbl2, level_ups |-> lups, level_up |-> FALSE]

\* update_user_xp returning the level-up flag without logging the level-up
update_user_xp_no_log(tbl, lups, user_id, xp_gain, coins_gain) ==
    LET tbl1 == get_or_create_user(tbl, user_id, NoName, NoName)
        user == tbl1[user_id]
        new_xp == user.xp + xp_gain
        new_level == calculate_level(new_xp)
        tbl2 == [tbl1 EXCEPT ![user_id] =
                    [@ EXCEPT !.xp = new_xp, !.level = new_level,
                              !.coins = user.coins + coins_gain,
                              !.total_messages = user.total_messages + 1,
                              !.last_active = today]]
    IN  [users |-> tbl2, level_ups |-> lups, level_up |-> new_level > user.level]

\* update_user_xp leaving coins out of the update
update_user_xp_no_coins(tbl, lups, user_id, xp_gain, coins_gain) ==
    LET tbl1 == get_or_create_user(tbl, user_id, NoName, NoName)
        user == tbl1[user_id]
        new_xp == user.xp + xp_gain
        new_level == calculate_level(new_xp)
        tbl2 == [tbl1 EXCEPT ![user_id] =
                    [@ EXCEPT !.xp = new_xp, !.level = new_level,
                              !.total_messages = user.total_messages + 1,
                              !.last_active = today]]
    IN  IF new_level > user.level
        THEN [users |-> tbl2,
              level_ups |-> log_level_up(lups, user_id, user.level, new_level),
              level_up |-> TRUE]
        ELSE [users |-> tbl2, level_ups |-> lups, level_up |-> FALSE]

\* update_user_xp storing the xp left over within the new level
update_user_xp_level_progress(tbl, lups, user_id, xp_gain, coins_gain) ==
    LET tbl1 == get_or_create_user(tbl, user_id, NoName, NoName)
        user == tbl1[user_id]
        new_xp == user.xp + xp_gain
        new_coins == user.coins + coins_gain
        new_level == calculate_level(new_xp)
        tbl2 == [tbl1 EXCEPT ![user_id] =
                    [@ EXCEPT !.xp = new_xp - calculate_xp_for_level(new_level),
                              !.level = new_level, !.coins = new_coins,
                              !.total_messages = user.total_messages + 1,
                              !.last_active = today]]
    IN  IF new_level > user.level
        THEN [users |-> tbl2,
              level_ups |-> log_level_up(lups, user_id, user.level, new_level),
              level_up |-> TRUE]
        ELSE [users |-> tbl2, level_ups |-> lups, level_up |-> FALSE]

\* update_user_xp: the tables after the call and the flag it returns
update_user_xp(tbl, lups, user_id, xp_gain, coins_gain) ==
    LET tbl1 == get_or_create_user(tbl, user_id, NoName, NoName)
        user == tbl1[user_id]
        new_xp == user.xp + xp_gain
        new_coins == user.coins + coins_gain
        new_level == calculate_level(new_xp)
        tbl2 == [tbl1 EXCEPT ![user_id] =
                    [@ EXCEPT !.xp = new_xp, !.level = new_level, !.coins = new_coins,
                              !.total_messages = user.total_messages + 1,
                              !.last_active = today]]
    IN  IF new_level > user.level
        THEN [users |-> tbl2,
              level_ups |-> log_level_up(lups, user_id, user.level, new_level),
              level_up |-> TRUE]
        ELSE [users |-> tbl2, level_ups |-> lups, level_up |-> FALSE]

-----------------------------------------------------------------------------
(* Daily reward *)

\* bot.py:248 reads the local name `user` before anything is bound to it
\* (the parameter is user_id): the read raises UnboundLocalError on every call
LocalUserUnbound == TRUE

\* check_daily_reward: the table after the call and the dict it returns
\* (time_left is <<>> when the dict has no such key)
check_daily_reward(tbl, user_id, secs) ==
    IF LocalUserUnbound
    THEN \* except Exception, bot.py:277-279
         [users |-> tbl, can_claim |-> FALSE, reason |-> "Database error",
          time_left |-> <<>>, streak |-> 0]
    ELSE LET tbl1 == get_or_create_user(tbl, user_id, NoName, NoName)
             user == tbl1[user_id]
             last_daily == user.last_daily
         IN  IF last_daily = None
             THEN [users |-> tbl1, can_claim |-> TRUE, reason |-> "",
                   time_left |-> <<>>, streak |-> 0]
             ELSE IF last_daily = today
             THEN [users |-> tbl1, can_claim |-> FALSE,
                   reason |-> "Already claimed today",
                   time_left |-> time_until_next_day(secs), streak |-> 0]
             ELSE [users |-> tbl1, can_claim |-> TRUE, reason |-> "",
                   time_left |-> <<>>,
                   streak |-> IF last_daily = today - 1
                              THEN user.daily_streak + 1
                              ELSE 1]

\* daily_command: /daily, or the "daily" button
daily_command(u, secs) ==
    LET daily_check == check_daily_reward(users, u, secs)
    IN  IF ~daily_check.can_claim
        THEN /\ users' = daily_check.users
             /\ reply' = Reply("daily",
                               u,
                               IF daily_check.time_left # <<>>
                               THEN "already_claimed" ELSE "error",
                               daily_check.reason, daily_check.time_left, 0)
             /\ UNCHANGED <<transactions, level_ups, today, msgs, calc, pc, loc>>
        ELSE LET streak == daily_check.streak
                 tbl1 == get_or_create_user(daily_check.users, u, NoName, NoName)
                 user_data == tbl1[u]
                 new_coins == user_data.coins + total_coins(streak)
                 new_xp == user_data.xp + total_xp(streak)
                 new_level == calculate_level(new_xp)
             IN  /\ users' = [tbl1 EXCEPT ![u] =
                                [@ EXCEPT !.coins = new_coins, !.xp = new_xp,
                                          !.level = new_level, !.last_daily = today,
                                          !.daily_streak = streak]]
                 /\ transactions' = log_transaction(transactions, u, "daily_reward",
                                        total_coins(streak), <<"Daily reward", streak>>)
                 /\ reply' = Reply("daily", u,
                                   IF new_level > user_data.level
                                   THEN "rewarded_level_up" ELSE "rewarded",
                                   "", <<>>, total_coins(streak))
                 /\ UNCHANGED <<level_ups, today, msgs, calc, pc, loc>>

-----------------------------------------------------------------------------
(* Message reward *)

\* handle_message adding the bonus to the balance it held before the reward
handle_message_stale_bonus(u, chat_type, is_bot) ==
    IF chat_type \notin {"group", "supergroup"} \/ is_bot
    THEN /\ reply' = Reply("message", u, "ignored", "", <<>>, 0)
         /\ UNCHANGED <<users, transactions, level_ups, today, msgs, calc, pc, loc>>
    ELSE LET before == get_or_create_user(users, u, NoName, NoName)[u]
             r == update_user_xp(users, level_ups, u, XP_PER_MESSAGE, COINS_PER_MESSAGE)
         IN  /\ msgs' = msgs + 1
             /\ level_ups' = r.level_ups
             /\ IF r.level_up
                THEN /\ users' = [r.users EXCEPT ![u] =
                                    [@ EXCEPT !.coins = before.coins + LEVEL_UP_BONUS]]
                     /\ reply' = Reply("message", u, "level_up", "", <<>>, r.users[u].level)
                ELSE /\ users' = r.users
                     /\ reply' = Reply("message", u, "rewarded", "", <<>>, 0)
             /\ UNCHANGED <<transactions, today, calc, pc, loc>>

\* handle_message: a text message of user u in a chat of type chat_type
handle_message(u, chat_type, is_bot) ==
    IF chat_type \notin {"group", "supergroup"} \/ is_bot
    THEN /\ reply' = Reply("message", u, "ignored", "", <<>>, 0)
         /\ UNCHANGED <<users, transactions, level_ups, today, msgs, calc, pc, loc>>
    ELSE LET r == update_user_xp(users, level_ups, u, XP_PER_MESSAGE, COINS_PER_MESSAGE)
         IN  /\ msgs' = msgs + 1
             /\ level_ups' = r.level_ups
             /\ IF r.level_up
                THEN LET tbl1 == get_or_create_user(r.users, u, NoName, NoName)
                         user_data == tbl1[u]
                     IN  /\ users' = [tbl1 EXCEPT ![u] =
                                        [@ EXCEPT !.coins = user_data.coins + LEVEL_UP_BONUS]]
                         /\ reply' = Reply("message", u, "level_up", "", <<>>,
                                           user_data.level)
                ELSE /\ users' = r.users
                     /\ reply' = Reply("message", u, "rewarded", "", <<>>, 0)
             /\ UNCHANGED <<transactions, today, calc, pc, loc>>

-----------------------------------------------------------------------------
(* Shop and rank upgrades *)

\* list(Config.SHOP_ITEMS.keys())[item_index]: 0 when the index is out of
\* range (IndexError), else the position in SHOP_ITEMS; a negative index
\* counts from the end
item_position(item_index) ==
    LET n == Len(SHOP_ITEMS)
        pos == IF item_index >= 0 THEN item_index + 1 ELSE n + item_index + 1
    IN  IF pos >= 1 /\ pos <= n THEN pos ELSE 0

\* handle_shop_purchase without the affordability check
handle_shop_purchase_no_check(u, item_index) ==
    IF item_position(item_index) = 0
    THEN /\ reply' = Reply("buy", u, "error", "", <<>>, 0)
         /\ UNCHANGED <<users, transactions, level_ups, today, msgs, calc, pc, loc>>
    ELSE LET item_data == SHOP_ITEMS[item_position(item_index)]
             tbl1 == get_or_create_user(users, u, NoName, NoName)
             new_coins == tbl1[u].coins - item_data.price
         IN  /\ users' = [tbl1 EXCEPT ![u] = [@ EXCEPT !.coins = new_coins]]
             /\ transactions' = log_transaction(transactions, u, "purchase",
                                    -item_data.price, <<"Bought", item_data.name>>)
             /\ reply' = Reply("buy", u, "bought", "", <<>>, item_data.price)
             /\ UNCHANGED <<level_ups, today, msgs, calc, pc, loc>>

\* handle_shop_purchase logging the price instead of the debit
handle_shop_purchase_unsigned_log(u, item_index) ==
    IF item_position(item_index) = 0
    THEN /\ reply' = Reply("buy", u, "error", "", <<>>, 0)
         /\ UNCHANGED <<users, transactions, level_ups, today, msgs, calc, pc, loc>>
    ELSE LET item_data == SHOP_ITEMS[item_position(item_index)]
             tbl1 == get_or_create_user(users, u, NoName, NoName)
             user_data == tbl1[u]
         IN  IF user_data.coins < item_data.price
             THEN /\ users' = tbl1
                  /\ reply' = Reply("buy", u, "insufficient_funds", "", <<>>,
                                    item_data.price)
                  /\ UNCHANGED <<transactions, level_ups, today, msgs, calc, pc, loc>>
             ELSE /\ users' = [tbl1 EXCEPT ![u] =
                                 [@ EXCEPT !.coins = user_data.coins - item_data.price]]
                  /\ transactions' = log_transaction(transactions, u, "purchase",
                                         item_data.price, <<"Bought", item_data.name>>)
                  /\ reply' = Reply("buy", u, "bought", "", <<>>, item_data.price)
                  /\ UNCHANGED <<level_ups, today, msgs, calc, pc, loc>>

\* handle_shop_purchase: the button "buy_<item_index>"
handle_shop_purchase(u, item_index) ==
    IF item_position(item_index) = 0
    THEN \* except Exception, bot.py:692-694
         /\ reply' = Reply("buy", u, "error", "", <<>>, 0)
         /\ UNCHANGED <<users, transactions, level_ups, today, msgs, calc, pc, loc>>
    ELSE LET item_data == SHOP_ITEMS[item_position(item_index)]
             tbl1 == get_or_create_user(users, u, NoName, NoName)
             user_data == tbl1[u]
         IN  IF user_data.coins < item_data.price
             THEN /\ users' = tbl1
                  /\ reply' = Reply("buy", u, "insufficient_funds", "", <<>>,
                                    item_data.price)
                  /\ UNCHANGED <<transactions, level_ups, today, msgs, calc, pc, loc>>
             ELSE LET new_coins == user_data.coins - item_data.price
                  IN  /\ users' = [tbl1 EXCEPT ![u] = [@ EXCEPT !.coins = new_coins]]
                      /\ transactions' = log_transaction(transactions, u, "purchase",
                                             -item_data.price, <<"Bought", item_data.name>>)
                      /\ reply' = Reply("buy", u, "bought", "", <<>>, item_data.price)
                      /\ UNCHANGED <<level_ups, today, msgs, calc, pc, loc>>

\* the rank part of the callback data of the upgrade buttons: shop_command
\* sends "upgrade_" + rank.lower(), profile_command sends "upgrade_rank"
lower(rank) ==
    CASE rank = "VIP" -> "vip"
      [] rank = "Premium" -> "premium"
      [] rank = "Admin" -> "admin"

UpgradeButtons == {lower(rank) : rank \in DOMAIN RANK_PRICES} \cup {"rank"}

\* str.upper() of the rank part
upper(word) ==
    CASE word = "vip" -> "VIP"
      [] word = "premium" -> "PREMIUM"
      [] word = "admin" -> "ADMIN"
      [] word = "rank" -> "RANK"

\* shop_command, bot.py:548-557: the rank parts of the upgrade buttons the
\* listing shows for a row: every priced rank but the current one, if affordable
shop_buttons(row) ==
    {lower(rank) : rank \in {r \in DOMAIN RANK_PRICES :
                                 row.rank # r /\ row.coins >= RANK_PRICES[r]}}

\* handle_rank_upgrade setting the rank before it looks at the balance
handle_rank_upgrade_unpaid(u, word) ==
    LET rank == upper(word)
    IN  IF rank \notin DOMAIN RANK_PRICES
        THEN /\ reply' = Reply("upgrade", u, "error", "", <<>>, 0)
             /\ UNCHANGED <<users, transactions, level_ups, today, msgs, calc, pc, loc>>
        ELSE LET price == RANK_PRICES[rank]
                 tbl1 == get_or_create_user(users, u, NoName, NoName)
                 user_data == tbl1[u]
             IN  IF user_data.coins < price
                 THEN /\ users' = [tbl1 EXCEPT ![u] = [@ EXCEPT !.rank = rank]]
                      /\ reply' = Reply("upgrade", u, "insufficient_funds", "", <<>>, price)
                      /\ UNCHANGED <<transactions, level_ups, today, msgs, calc, pc, loc>>
                 ELSE /\ users' = [tbl1 EXCEPT ![u] =
                                     [@ EXCEPT !.coins = user_data.coins - price,
                                               !.rank = rank]]
                      /\ transactions' = log_transaction(transactions, u,
                                             "rank_upgrade", -price,
                                             <<"Upgraded to", rank>>)
                      /\ reply' = Reply("upgrade", u, "upgraded", "", <<>>, price)
                      /\ UNCHANGED <<level_ups, today, msgs, calc, pc, loc>>

\* handle_rank_upgrade: the button "upgrade_<word>"
handle_rank_upgrade(u, word) ==
    LET rank == upper(word)
    IN  IF rank \notin DOMAIN RANK_PRICES
        THEN \* KeyError, except Exception, bot.py:750-752
             /\ reply' = Reply("upgrade", u, "error", "", <<>>, 0)
             /\ UNCHANGED <<users, transactions, level_ups, today, msgs, calc, pc, loc>>
        ELSE LET price == RANK_PRICES[rank]
                 tbl1 == get_or_create_user(users, u, NoName, NoName)
                 user_data == tbl1[u]
             IN  IF user_data.coins < price
                 THEN /\ users' = tbl1
                      /\ reply' = Reply("upgrade", u, "insufficient_funds", "", <<>>, price)
                      /\ UNCHANGED <<transactions, level_ups, today, msgs, calc, pc, loc>>
                 ELSE LET new_coins == user_data.coins - price
                      IN  /\ users' = [tbl1 EXCEPT ![u] =
                                         [@ EXCEPT !.coins = new_coins, !.rank = rank]]
                          /\ transactions' = log_transaction(transactions, u,
                                                 "rank_upgrade", -price,
                                                 <<"Upgraded to", rank>>)
                          /\ reply' = Reply("upgrade", u, "upgraded", "", <<>>, price)
                          /\ UNCHANGED <<level_ups, today, msgs, calc, pc, loc>>

-----------------------------------------------------------------------------
(* Commands that only look the user up *)

\* start_command: get_or_create_user(user.id, user.username, user.first_name)
start_command(u) ==
    /\ users' = get_or_create_user(users, u, UserName(u), FirstName(u))
    /\ reply' = Reply("start", u, "shown", "", <<>>, 0)
    /\ UNCHANGED <<transactions, level_ups, today, msgs, calc, pc, loc>>

\* profile_command: get_or_create_user(user.id, user.username, user.first_name)
profile_command(u) ==
    /\ users' = get_or_create_user(users, u, UserName(u), FirstName(u))
    /\ reply' = Reply("profile", u, "shown", "", <<>>, 0)
    /\ UNCHANGED <<transactions, level_ups, today, msgs, calc, pc, loc>>

\* shop_command: get_or_create_user(user.id)
shop_command(u) ==
    /\ users' = get_or_create_user(users, u, NoName, NoName)
    /\ reply' = Reply("shop", u, "shown", "", <<>>, 0)
    /\ UNCHANGED <<transactions, level_ups, today, msgs, calc, pc, loc>>

-----------------------------------------------------------------------------
(* The clock *)

\* midnight passes: datetime.now().date() is the next day
NextDay ==
    /\ today < MaxDay
    /\ today' = today + 1
    /\ UNCHANGED <<users, transactions, level_ups, msgs, reply, calc, pc, loc>>

-----------------------------------------------------------------------------
(* The bot on an empty store, one event at a time *)

ChatTypes == {"private", "group", "supergroup"}
BuyIndices == -1 .. Len(SHOP_ITEMS)

Init ==
    /\ users = <<>>
    /\ transactions = EmptyBag
    /\ level_ups = EmptyBag
    /\ today = 0
    /\ msgs = 0
    /\ reply = NoReply
    /\ calc = NoCalc
    /\ pc = [p \in Procs |-> "idle"]
    /\ loc = [p \in Procs |-> NoLocal]

\* the events of the users in U, at most max_msgs qualifying messages
Events(U, max_msgs) ==
    \/ \E u \in U, chat_type \in ChatTypes, is_bot \in BOOLEAN :
          /\ msgs < max_msgs
          /\ handle_message(u, chat_type, is_bot)
    \/ \E u \in U, secs \in SecondsOfDay : daily_command(u, secs)
    \/ \E u \in U, item_index \in BuyIndices : handle_shop_purchase(u, item_index)
    \/ \E u \in U, word \in UpgradeButtons : handle_rank_upgrade(u, word)
    \/ \E u \in U : start_command(u)
    \/ \E u \in U : profile_command(u)
    \/ \E u \in U : shop_command(u)

\* one user, far enough to afford the cheapest shop item
Next == Events(UserIds, MaxMsgs) \/ NextDay

Spec == Init /\ [][Next]_vars

\* two users within one day, far enough for a level-up
NextTwo == Events(TwoUserIds, MaxTwoMsgs)

SpecTwo == Init /\ [][NextTwo]_vars

-----------------------------------------------------------------------------
(* The reward arithmetic of daily_command on its own *)

\* bot.py:453-461 for one streak value
CalcDailyReward(streak) ==
    /\ calc' = [NoCalc EXCEPT !.fn = "daily_reward", !.arg = streak,
                              !.coins = total_coins(streak), !.xp = total_xp(streak)]
    /\ UNCHANGED <<users, transactions, level_ups, today, msgs, reply, pc, loc>>

\* calculate_level(xp) and the cumulative thresholds of the level it returns
\* and of the next one
CalcLevel(xp) ==
    /\ calc' = [NoCalc EXCEPT !.fn = "calculate_level", !.arg = xp,
                              !.level = calculate_level(xp),
                              !.total_xp = calculate_xp_for_level(calculate_level(xp)),
                              !.next_xp = calculate_xp_for_level(calculate_level(xp) + 1)]
    /\ UNCHANGED <<users, transactions, level_ups, today, msgs, reply, pc, loc>>

\* calculate_xp_for_level(level), the threshold of the next level and the
\* level calculate_level gives back for the threshold
CalcXpForLevel(level) ==
    /\ calc' = [NoCalc EXCEPT !.fn = "calculate_xp_for_level", !.arg = level,
                              !.total_xp = calculate_xp_for_level(level),
                              !.next_xp = calculate_xp_for_level(level + 1),
                              !.level = calculate_level(calculate_xp_for_level(level))]
    /\ UNCHANGED <<users, transactions, level_ups, today, msgs, reply, pc, loc>>

NextCalc ==
    \/ \E streak \in 0 .. MaxStreak : CalcDailyReward(streak)
    \/ \E xp \in 0 .. MaxXp : CalcLevel(xp)
    \/ \E level \in 1 .. MaxLevel : CalcXpForLevel(level)

SpecCalc == Init /\ [][NextCalc]_vars

-----------------------------------------------------------------------------
(* The bot on a store that already holds a row with a daily-claim history *)

\* a row as the update of a successful claim leaves it (bot.py:470-476):
\* last_daily a date, daily_streak the streak stored with it.  The bot does
\* not get to write such a row itself (LocalUserUnbound); the table outlives
\* the process and is what check_daily_reward is handed.
stored_row(user_id, last_daily, daily_streak) ==
    [new_user(user_id, NoName, NoName) EXCEPT
        !.last_daily = last_daily, !.daily_streak = daily_streak]

InitDaily ==
    /\ today = 0
    /\ \E u \in UserIds, daily_streak \in 0 .. MaxStoredStreak :
          users = (u :> stored_row(u, 0, daily_streak))
    /\ transactions = EmptyBag
    /\ level_ups = EmptyBag
    /\ msgs = 0
    /\ reply = NoReply
    /\ calc = NoCalc
    /\ pc = [p \in Procs |-> "idle"]
    /\ loc = [p \in Procs |-> NoLocal]

NextDaily == Events(UserIds, MaxTwoMsgs) \/ NextDay

SpecDaily == InitDaily /\ [][NextDaily]_vars

-----------------------------------------------------------------------------
(* Handlers interleaved at their store calls *)
(*                                                                         *)
(* Two handlers (two webhook invocations) run against the same store.     *)
(* A step is one store call of a handler together with the local          *)
(* computation up to its next store call.  The store already holds the    *)
(* users' rows, so get_or_create_user is its select alone.                *)

\* the row of a user after n qualifying messages and nothing else
after_messages(user_id, n) ==
    LET xp == n * XP_PER_MESSAGE
        level == calculate_level(xp)
    IN  [new_user(user_id, NoName, NoName) EXCEPT
            !.xp = xp, !.level = level, !.total_messages = n,
            !.coins = STARTING_COINS + n * COINS_PER_MESSAGE
                        + (level - 1) * LEVEL_UP_BONUS]

\* message counts the interleaved runs start from: one message short of
\* level 2, the cheapest item just affordable, the VIP rank affordable
StoredMsgs == {19, 125, 2300}

Finish(p) ==
    /\ pc' = [pc EXCEPT ![p] = "idle"]
    /\ loc' = [loc EXCEPT ![p] = NoLocal]

Goto(p, label, locals) ==
    /\ pc' = [pc EXCEPT ![p] = label]
    /\ loc' = [loc EXCEPT ![p] = locals]

\* events taken up so far: messages, and purchases and upgrades that passed
\* the affordability check
Started ==
    msgs + BagCardinality(transactions)
         + Cardinality({p \in Procs : pc[p] \in {"buy_write", "upgrade_write"}})

\* update_user_xp, bot.py:169: the select of the row
message_read(p, u) ==
    /\ pc[p] = "idle"
    /\ Started < MaxConcEvents
    /\ msgs' = msgs + 1
    /\ users' = get_or_create_user(users, u, NoName, NoName)
    /\ Goto(p, "message_write", [NoLocal EXCEPT !.user = u, !.row = users'[u]])
    /\ UNCHANGED <<transactions, level_ups, today, reply, calc>>

\* update_user_xp, bot.py:173-187: the update computed from the row read
message_write(p) ==
    /\ pc[p] = "message_write"
    /\ LET u == loc[p].user
           user == loc[p].row
           new_xp == user.xp + XP_PER_MESSAGE
           new_coins == user.coins + COINS_PER_MESSAGE
           new_level == calculate_level(new_xp)
       IN  /\ users' = [users EXCEPT ![u] =
                          [@ EXCEPT !.xp = new_xp, !.level = new_level,
                                    !.coins = new_coins,
                                    !.total_messages = user.total_messages + 1,
                                    !.last_active = today]]
           /\ IF new_level > user.level
              THEN /\ Goto(p, "message_log", [loc[p] EXCEPT !.price = new_level])
                   /\ UNCHANGED reply
              ELSE /\ Finish(p)
                   /\ reply' = Reply("message", u, "rewarded", "", <<>>, 0)
    /\ UNCHANGED <<transactions, level_ups, today, msgs, calc>>

\* update_user_xp, bot.py:188: log_level_up
message_log(p) ==
    /\ pc[p] = "message_log"
    /\ level_ups' = log_level_up(level_ups, loc[p].user, loc[p].row.level, loc[p].price)
    /\ Goto(p, "bonus_read", loc[p])
    /\ UNCHANGED <<users, transactions, today, msgs, reply, calc>>

\* handle_message, bot.py:588: the row is read again
bonus_read(p) ==
    /\ pc[p] = "bonus_read"
    /\ Goto(p, "bonus_write", [loc[p] EXCEPT !.row = users[loc[p].user]])
    /\ UNCHANGED <<users, transactions, level_ups, today, msgs, reply, calc>>

\* handle_message, bot.py:601-603: the bonus is written
bonus_write(p) ==
    /\ pc[p] = "bonus_write"
    /\ users' = [users EXCEPT ![loc[p].user] =
                    [@ EXCEPT !.coins = loc[p].row.coins + LEVEL_UP_BONUS]]
    /\ reply' = Reply("message", loc[p].user, "level_up", "", <<>>, loc[p].row.level)
    /\ Finish(p)
    /\ UNCHANGED <<transactions, level_ups, today, msgs, calc>>

\* the first step of handle_shop_purchase without the affordability check
buy_read_no_check(p, u, item_index) ==
    /\ pc[p] = "idle"
    /\ item_position(item_index) # 0
    /\ Started < MaxConcEvents
    /\ users' = get_or_create_user(users, u, NoName, NoName)
    /\ Goto(p, "buy_write",
            [user |-> u, row |-> users'[u],
             price |-> SHOP_ITEMS[item_position(item_index)].price,
             name |-> SHOP_ITEMS[item_position(item_index)].name])
    /\ UNCHANGED <<transactions, level_ups, today, msgs, reply, calc>>

\* handle_shop_purchase, bot.py:642-655: the select of the row and the check
buy_read(p, u, item_index) ==
    /\ pc[p] = "idle"
    /\ IF item_position(item_index) = 0
       THEN /\ reply' = Reply("buy", u, "error", "", <<>>, 0)
            /\ UNCHANGED <<users, pc, loc>>
       ELSE LET item_data == SHOP_ITEMS[item_position(item_index)]
                tbl1 == get_or_create_user(users, u, NoName, NoName)
            IN  /\ users' = tbl1
                /\ IF tbl1[u].coins < item_data.price
                   THEN /\ reply' = Reply("buy", u, "insufficient_funds", "", <<>>,
                                          item_data.price)
                        /\ UNCHANGED <<pc, loc>>
                   ELSE /\ Started < MaxConcEvents
                        /\ Goto(p, "buy_write",
                                [user |-> u, row |-> tbl1[u],
                                 price |-> item_data.price, name |-> item_data.name])
                        /\ UNCHANGED reply
    /\ UNCHANGED <<transactions, level_ups, today, msgs, calc>>

\* handle_shop_purchase, bot.py:657-661: the debit computed from the row read
buy_write(p) ==
    /\ pc[p] = "buy_write"
    /\ users' = [users EXCEPT ![loc[p].user] =
                    [@ EXCEPT !.coins = loc[p].row.coins - loc[p].price]]
    /\ Goto(p, "buy_log", loc[p])
    /\ UNCHANGED <<transactions, level_ups, today, msgs, reply, calc>>

\* handle_shop_purchase, bot.py:664: log_transaction
buy_log(p) ==
    /\ pc[p] = "buy_log"
    /\ transactions' = log_transaction(transactions, loc[p].user, "purchase",
                                       -loc[p].price, <<"Bought", loc[p].name>>)
    /\ reply' = Reply("buy", loc[p].user, "bought", "", <<>>, loc[p].price)
    /\ Finish(p)
    /\ UNCHANGED <<users, level_ups, today, msgs, calc>>

\* handle_rank_upgrade, bot.py:702-714: the select of the row and the check
upgrade_read(p, u, word) ==
    /\ pc[p] = "idle"
    /\ IF upper(word) \notin DOMAIN RANK_PRICES
       THEN /\ reply' = Reply("upgrade", u, "error", "", <<>>, 0)
            /\ UNCHANGED <<users, pc, loc>>
       ELSE LET rank == upper(word)
                price == RANK_PRICES[rank]
                tbl1 == get_or_create_user(users, u, NoName, NoName)
            IN  /\ users' = tbl1
                /\ IF tbl1[u].coins < price
                   THEN /\ reply' = Reply("upgrade", u, "insufficient_funds", "", <<>>,
                                          price)
                        /\ UNCHANGED <<pc, loc>>
                   ELSE /\ Started < MaxConcEvents
                        /\ Goto(p, "upgrade_write",
                                [user |-> u, row |-> tbl1[u],
                                 price |-> price, name |-> rank])
                        /\ UNCHANGED reply
    /\ UNCHANGED <<transactions, level_ups, today, msgs, calc>>

\* handle_rank_upgrade, bot.py:716-721: the debit and the rank
upgrade_write(p) ==
    /\ pc[p] = "upgrade_write"
    /\ users' = [users EXCEPT ![loc[p].user] =
                    [@ EXCEPT !.coins = loc[p].row.coins - loc[p].price,
                              !.rank = loc[p].name]]
    /\ Goto(p, "upgrade_log", loc[p])
    /\ UNCHANGED <<transactions, level_ups, today, msgs, reply, calc>>

\* handle_rank_upgrade, bot.py:724: log_transaction
upgrade_log(p) ==
    /\ pc[p] = "upgrade_log"
    /\ transactions' = log_transaction(transactions, loc[p].user, "rank_upgrade",
                                       -loc[p].price, <<"Upgraded to", loc[p].name>>)
    /\ reply' = Reply("upgrade", loc[p].user, "upgraded", "", <<>>, loc[p].price)
    /\ Finish(p)
    /\ UNCHANGED <<users, level_ups, today, msgs, calc>>

InitConc ==
    /\ today = 0
    /\ \E n \in StoredMsgs : users = [u \in UserIds |-> after_messages(u, n)]
    /\ transactions = EmptyBag
    /\ level_ups = EmptyBag
    /\ msgs = 0
    /\ reply = NoReply
    /\ calc = NoCalc
    /\ pc = [p \in Procs |-> "idle"]
    /\ loc = [p \in Procs |-> NoLocal]

NextConc ==
    \/ \E p \in Procs, u \in UserIds : message_read(p, u)
    \/ \E p \in Procs : message_write(p)
    \/ \E p \in Procs : message_log(p)
    \/ \E p \in Procs : bonus_read(p)
    \/ \E p \in Procs : bonus_write(p)
    \/ \E p \in Procs, u \in UserIds, item_index \in BuyIndices : buy_read(p, u, item_index)
    \/ \E p \in Procs : buy_write(p)
    \/ \E p \in Procs : buy_log(p)
    \/ \E p \in Procs, u \in UserIds, word \in UpgradeButtons : upgrade_read(p, u, word)
    \/ \E p \in Procs : upgrade_write(p)
    \/ \E p \in Procs : upgrade_log(p)

SpecConc == InitConc /\ [][NextConc]_vars

-----------------------------------------------------------------------------
(* The bot on a store whose row holds the coins of many messages *)

\* message counts whose rewards pay for the VIP rank once (2300: 5200 coins)
\* and for VIP and then Premium (9700: 20150 coins); the empty store as well
RankMsgs == {2300, 9700}

InitStored ==
    /\ today = 0
    /\ \/ users = <<>>
       \/ \E u \in UserIds, n \in RankMsgs : users = (u :> after_messages(u, n))
    /\ transactions = EmptyBag
    /\ level_ups = EmptyBag
    /\ msgs = 0
    /\ reply = NoReply
    /\ calc = NoCalc
    /\ pc = [p \in Procs |-> "idle"]
    /\ loc = [p \in Procs |-> NoLocal]

\* the events of Spec within one day, at most MaxStoredBuys debits
NextStored ==
    \/ \E u \in UserIds, chat_type \in ChatTypes, is_bot \in BOOLEAN :
          /\ msgs < MaxStoredMsgs
          /\ handle_message(u, chat_type, is_bot)
    \/ \E u \in UserIds, secs \in SecondsOfDay : daily_command(u, secs)
    \/ \E u \in UserIds, item_index \in BuyIndices :
          /\ BagCardinality(transactions) < MaxStoredBuys
          /\ handle_shop_purchase(u, item_index)
    \/ \E u \in UserIds, word \in UpgradeButtons :
          /\ BagCardinality(transactions) < MaxStoredBuys
          /\ handle_rank_upgrade(u, word)
    \/ \E u \in UserIds : start_command(u)
    \/ \E u \in UserIds : profile_command(u)
    \/ \E u \in UserIds : shop_command(u)

SpecStored == InitStored /\ [][NextStored]_vars

-----------------------------------------------------------------------------
(* Handlers in which one store call raises *)

\* the store calls of a handler, in the order it makes them: the select and
\* the insert of get_or_create_user, the update of the row, the insert into a
\* log table, and the second select and update of handle_message
MessageCalls == {"select", "insert", "update", "log", "bonus_select", "bonus_update"}
DebitCalls == {"select", "insert", "update", "log"}

\* handle_message for a group message of a user when the call `fault` raises
\* (enabled when the handler gets as far as that call):
\*   select, insert  get_or_create_user returns None, update_user_xp False
\*   update          caught in update_user_xp, which returns False
\*   log             swallowed by log_level_up, the handler goes on
\*   bonus_select    get_or_create_user returns None, the bonus is skipped
\*   bonus_update    the exception leaves handle_message
handle_message_fault(u, fault) ==
    LET r == update_user_xp(users, level_ups, u, XP_PER_MESSAGE, COINS_PER_MESSAGE)
    IN  /\ msgs' = msgs + 1
        /\ CASE fault = "select" ->
                  /\ reply' = Reply("message", u, "error", "", <<>>, 0)
                  /\ UNCHANGED <<users, level_ups>>
             [] fault = "insert" ->
                  /\ u \notin DOMAIN users
                  /\ reply' = Reply("message", u, "error", "", <<>>, 0)
                  /\ UNCHANGED <<users, level_ups>>
             [] fault = "update" ->
                  /\ users' = get_or_create_user(users, u, NoName, NoName)
                  /\ reply' = Reply("message", u, "error", "", <<>>, 0)
                  /\ UNCHANGED level_ups
             [] fault = "log" ->
                  /\ r.level_up
                  /\ users' = [r.users EXCEPT ![u] =
                                 [@ EXCEPT !.coins = r.users[u].coins + LEVEL_UP_BONUS]]
                  /\ reply' = Reply("message", u, "level_up", "", <<>>, r.users[u].level)
                  /\ UNCHANGED level_ups
             [] fault \in {"bonus_select", "bonus_update"} ->
                  /\ r.level_up
                  /\ users' = r.users
                  /\ level_ups' = r.level_ups
                  /\ reply' = Reply("message", u, "error", "", <<>>, 0)
        /\ UNCHANGED <<transactions, today, calc, pc, loc>>

\* handle_shop_purchase when the call `fault` raises:
\*   select, insert  user_data is None, user_data['coins'] raises TypeError
\*   update          the exception reaches except Exception, bot.py:692-694
\*   log             swallowed by log_transaction, the purchase is reported
handle_shop_purchase_fault(u, item_index, fault) ==
    /\ item_position(item_index) # 0
    /\ LET item_data == SHOP_ITEMS[item_position(item_index)]
           tbl1 == get_or_create_user(users, u, NoName, NoName)
           user_data == tbl1[u]
       IN  CASE fault = "select" ->
                  /\ reply' = Reply("buy", u, "error", "", <<>>, 0)
                  /\ UNCHANGED users
             [] fault = "insert" ->
                  /\ u \notin DOMAIN users
                  /\ reply' = Reply("buy", u, "error", "", <<>>, 0)
                  /\ UNCHANGED users
             [] fault = "update" ->
                  /\ user_data.coins >= item_data.price
                  /\ users' = tbl1
                  /\ reply' = Reply("buy", u, "error", "", <<>>, 0)
             [] fault = "log" ->
                  /\ user_data.coins >= item_data.price
                  /\ users' = [tbl1 EXCEPT ![u] =
                                 [@ EXCEPT !.coins = user_data.coins - item_data.price]]
                  /\ reply' = Reply("buy", u, "bought", "", <<>>, item_data.price)
    /\ UNCHANGED <<transactions, level_ups, today, msgs, calc, pc, loc>>

\* handle_rank_upgrade when the call `fault` raises, as for a purchase
handle_rank_upgrade_fault(u, word, fault) ==
    /\ upper(word) \in DOMAIN RANK_PRICES
    /\ LET rank == upper(word)
           price == RANK_PRICES[rank]
           tbl1 == get_or_create_user(users, u, NoName, NoName)
           user_data == tbl1[u]
       IN  CASE fault = "select" ->
                  /\ reply' = Reply("upgrade", u, "error", "", <<>>, 0)
                  /\ UNCHANGED users
             [] fault = "insert" ->
                  /\ u \notin DOMAIN users
                  /\ reply' = Reply("upgrade", u, "error", "", <<>>, 0)
                  /\ UNCHANGED users
             [] fault = "update" ->
                  /\ user_data.coins >= price
                  /\ users' = tbl1
                  /\ reply' = Reply("upgrade", u, "error", "", <<>>, 0)
             [] fault = "log" ->
                  /\ user_data.coins >= price
                  /\ users' = [tbl1 EXCEPT ![u] =
                                 [@ EXCEPT !.coins = user_data.coins - price,
                                           !.rank = rank]]
                  /\ reply' = Reply("upgrade", u, "upgraded", "", <<>>, price)
    /\ UNCHANGED <<transactions, level_ups, today, msgs, calc, pc, loc>>

\* the store is empty or holds the row of StoredMsgs messages
InitFault ==
    /\ today = 0
    /\ \/ users = <<>>
       \/ \E u \in UserIds, n \in StoredMsgs : users = (u :> after_messages(u, n))
    /\ transactions = EmptyBag
    /\ level_ups = EmptyBag
    /\ msgs = 0
    /\ reply = NoReply
    /\ calc = NoCalc
    /\ pc = [p \in Procs |-> "idle"]
    /\ loc = [p \in Procs |-> NoLocal]

\* messages, purchases and upgrades, each either without a fault or with one
\* store call raising
NextFault ==
    \/ \E u \in UserIds :
          /\ msgs < MaxFaultMsgs
          /\ handle_message(u, "group", FALSE)
    \/ \E u \in UserIds, fault \in MessageCalls :
          /\ msgs < MaxFaultMsgs
          /\ handle_message_fault(u, fault)
    \/ \E u \in UserIds, item_index \in BuyIndices :
          /\ BagCardinality(transactions) < MaxFaultBuys
          /\ handle_shop_purchase(u, item_index)
    \/ \E u \in UserIds, item_index \in BuyIndices, fault \in DebitCalls :
          /\ BagCardinality(transactions) < MaxFaultBuys
          /\ handle_shop_purchase_fault(u, item_index, fault)
    \/ \E u \in UserIds, word \in UpgradeButtons :
          /\ BagCardinality(transactions) < MaxFaultBuys
          /\ handle_rank_upgrade(u, word)
    \/ \E u \in UserIds, word \in UpgradeButtons, fault \in DebitCalls :
          /\ BagCardinality(transactions) < MaxFaultBuys
          /\ handle_rank_upgrade_fault(u, word, fault)

SpecFault == InitFault /\ [][NextFault]_vars

-----------------------------------------------------------------------------
(* Properties of the bot on an empty store *)

\* the row of u a handler works on: the stored one, or the one it creates
RowOf(u) == get_or_create_user(users, u, NoName, NoName)[u]

\* the rows the interleaved runs start from are rows the bot reaches: a user
\* who has only sent messages holds after_messages of their message count
StoredRowsReached ==
    transactions = EmptyBag =>
        \A u \in DOMAIN users :
            LET row == after_messages(u, users[u].total_messages)
            IN  /\ users[u].xp = row.xp
                /\ users[u].level = row.level
                /\ users[u].coins = row.coins
                /\ users[u].rank = row.rank
                /\ users[u].last_daily = row.last_daily
                /\ users[u].daily_streak = row.daily_streak

\* C1: in every reachable state the stored level of every user row is
\* calculate_level of its stored xp.
C1_LevelMatchesXp ==
    \A u \in DOMAIN users : users[u].level = calculate_level(users[u].xp)

\* a user whose xp has crossed the first threshold and whose level followed
C1_Witness ==
    \E u \in DOMAIN users : users[u].xp >= BASE_XP /\ users[u].level = 2

\* C2: in every reachable state, under every interleaving of the handlers'
\* store calls, every user's coins are >= 0.
C2_CoinsNonNegative ==
    \A u \in DOMAIN users : users[u].coins >= 0

\* two interleaved purchases of the 500-coin item by a user who held 500
\* coins: both were debited from the same balance, which ends at 0
C2_Witness ==
    \E u \in DOMAIN users :
        /\ users[u].total_messages = 125
        /\ users[u].coins = 0
        /\ CopiesIn(transaction_row(u, "purchase", -500,
                                    <<"Bought", SHOP_ITEMS[1].name>>),
                    transactions) = 2

\* C3: a step that handles a qualifying message adds 1 to the author's
\* total_messages, XP_PER_MESSAGE to xp and COINS_PER_MESSAGE to coins, plus
\* the level-up bonus of 50 exactly when the stored level rises, and touches
\* no other row.
C3_MessageReward ==
    [][ msgs' = msgs + 1 =>
          \E u \in DOMAIN users' :
              LET old == RowOf(u)
                  new == users'[u]
              IN  /\ reply'.op = "message" /\ reply'.user = u
                  /\ new.total_messages = old.total_messages + 1
                  /\ new.xp = old.xp + XP_PER_MESSAGE
                  /\ new.coins = old.coins + COINS_PER_MESSAGE
                                  + (IF new.level > old.level THEN 50 ELSE 0)
                  /\ new.level >= old.level
                  /\ \A v \in DOMAIN users' \ {u} :
                        v \in DOMAIN users /\ users'[v] = users[v] ]_vars

\* the 20th message of a user crossed into level 2 and paid 2 + 50 coins
C3_Witness ==
    /\ reply.op = "message" /\ reply.status = "level_up"
    /\ reply.user \in DOMAIN users
    /\ users[reply.user].total_messages = 20
    /\ users[reply.user].xp = 100
    /\ users[reply.user].coins = 100 + 20 * 2 + 50

\* C4: a daily claim by a user whose last_daily is unset is accepted with
\* streak 0 and credits the base reward.
C4_FirstDailyClaim ==
    [][ \A u \in AllUserIds, secs \in SecondsOfDay :
          (daily_command(u, secs) /\ RowOf(u).last_daily = None) =>
              /\ reply'.status \in {"rewarded", "rewarded_level_up"}
              /\ users'[u].coins = RowOf(u).coins + DAILY_REWARD_COINS
              /\ users'[u].xp = RowOf(u).xp + DAILY_REWARD_XP
              /\ users'[u].daily_streak = 0
              /\ users'[u].last_daily = today ]_vars

\* C8: a step that raises the stored level of a user appends the row
\* (user, old level, new level) to level_ups.
C8_LevelUpLogged ==
    [][ \A u \in DOMAIN users' :
          users'[u].level > RowOf(u).level =>
              level_ups' = level_ups (+)
                  SetToBag({level_up_row(u, RowOf(u).level, users'[u].level)}) ]_vars

\* the level-up of a user from 1 to 2 is in the log
C8_Witness ==
    \E u \in DOMAIN users :
        /\ users[u].level = 2
        /\ BagIn(level_up_row(u, 1, 2), level_ups)

\* C9: a purchase by a user whose coins are below the price is refused as
\* insufficient funds, changes no row (the buyer's row is created if it was
\* missing) and appends nothing to either log.
C9_PurchaseRefused ==
    [][ \A u \in AllUserIds, item_index \in BuyIndices :
          ( /\ handle_shop_purchase(u, item_index)
            /\ item_position(item_index) # 0
            /\ RowOf(u).coins < SHOP_ITEMS[item_position(item_index)].price ) =>
              /\ reply'.status = "insufficient_funds"
              /\ users' = get_or_create_user(users, u, NoName, NoName)
              /\ transactions' = transactions
              /\ level_ups' = level_ups ]_vars

\* a refused purchase: the buyer holds fewer coins than the price asked
C9_Witness ==
    /\ reply.op = "buy" /\ reply.status = "insufficient_funds"
    /\ reply.user \in DOMAIN users
    /\ users[reply.user].coins < reply.amount
    /\ users[reply.user].total_messages > 0
    /\ DOMAIN users = TwoUserIds
    /\ transactions = EmptyBag

\* C10: a purchase by a user whose coins cover the price debits exactly the
\* price, appends exactly one purchase row of amount -price, and leaves every
\* other column of the row, every other row and level_ups as they were.
C10_PurchaseDebits ==
    [][ \A u \in AllUserIds, item_index \in BuyIndices :
          ( /\ handle_shop_purchase(u, item_index)
            /\ item_position(item_index) # 0
            /\ RowOf(u).coins >= SHOP_ITEMS[item_position(item_index)].price ) =>
              LET price == SHOP_ITEMS[item_position(item_index)].price
              IN  /\ reply'.status = "bought"
                  /\ users' = [get_or_create_user(users, u, NoName, NoName)
                                  EXCEPT ![u] = [@ EXCEPT !.coins = @ - price]]
                  /\ BagCardinality(transactions') = BagCardinality(transactions) + 1
                  /\ \E row \in BagToSet(transactions') :
                        /\ transactions' = transactions (+) SetToBag({row})
                        /\ row.user_id = u
                        /\ row.type = "purchase"
                        /\ row.amount = -price
                  /\ level_ups' = level_ups ]_vars

\* a purchase went through: one purchase row, and the balance it left
C10_Witness ==
    /\ reply.op = "buy" /\ reply.status = "bought"
    /\ BagCardinality(transactions) = 1
    /\ reply.user \in DOMAIN users
    /\ users[reply.user].coins
          = 100 + 2 * users[reply.user].total_messages
                + 50 * (users[reply.user].level - 1) - reply.amount

-----------------------------------------------------------------------------
(* Properties of the daily reward *)

C7_RewardFormula ==
    calc.fn = "daily_reward" =>
        LET streak == calc.arg
            percent == IF streak * 10 < 200 THEN streak * 10 ELSE 200
        IN  /\ calc.coins = DAILY_REWARD_COINS + (DAILY_REWARD_COINS * percent) \div 100
            /\ calc.xp = DAILY_REWARD_XP + (DAILY_REWARD_XP * percent) \div 100
            /\ (streak = 5 => calc.coins = 150 /\ calc.xp = 75)
            /\ (streak >= 20 => calc.coins = 300 /\ calc.xp = 150)
            /\ calc.coins <= 3 * DAILY_REWARD_COINS
            /\ calc.xp <= 3 * DAILY_REWARD_XP

\* the reward of a streak beyond the cap has been computed
C7_Witness ==
    calc.fn = "daily_reward" /\ calc.arg = 25 /\ calc.coins = 300 /\ calc.xp = 150

-----------------------------------------------------------------------------
(* Properties of rank upgrades *)

\* C11: for every priced rank, pressing the upgrade button the shop listing
\* shows for it (the user can afford it and does not hold it) debits exactly
\* RANK_PRICES[rank], sets the rank to it and appends one rank_upgrade row of
\* amount -RANK_PRICES[rank].
C11_UpgradeByButton ==
    [][ \A u \in AllUserIds, rank \in DOMAIN RANK_PRICES :
          ( /\ handle_rank_upgrade(u, lower(rank))
            /\ lower(rank) \in shop_buttons(RowOf(u)) ) =>
              /\ reply'.status = "upgraded"
              /\ users'[u].coins = RowOf(u).coins - RANK_PRICES[rank]
              /\ users'[u].rank = rank
              /\ transactions' = transactions (+)
                    SetToBag({transaction_row(u, "rank_upgrade", -RANK_PRICES[rank],
                                              <<"Upgraded to", rank>>)}) ]_vars

\* C12: an upgrade request for the rank the user already holds is refused as
\* AlreadyThisRank: no coins debited, rank unchanged, nothing logged.
C12_SameRankRefused ==
    [][ \A u \in AllUserIds, word \in UpgradeButtons :
          ( /\ handle_rank_upgrade(u, word)
            /\ upper(word) \in DOMAIN RANK_PRICES
            /\ RowOf(u).rank = upper(word)
            /\ RowOf(u).coins >= RANK_PRICES[upper(word)] ) =>
              /\ reply'.status = "already_this_rank"
              /\ users' = users
              /\ transactions' = transactions ]_vars

\* C17: a row is created with rank Newbie, and a step changes the rank of a
\* row only as a paid upgrade: the reply says upgraded, the price of the new
\* rank is debited and its rank_upgrade row is appended.
C17_RankOnlyByUpgrade ==
    [][ \A u \in DOMAIN users' :
          /\ u \notin DOMAIN users => users'[u].rank = "Newbie"
          /\ users'[u].rank # RowOf(u).rank =>
                /\ reply'.op = "upgrade" /\ reply'.status = "upgraded" /\ reply'.user = u
                /\ users'[u].rank \in DOMAIN RANK_PRICES
                /\ RowOf(u).coins >= RANK_PRICES[users'[u].rank]
                /\ users'[u].coins = RowOf(u).coins - RANK_PRICES[users'[u].rank]
                /\ transactions' = transactions (+)
                      SetToBag({transaction_row(u, "rank_upgrade",
                                                -RANK_PRICES[users'[u].rank],
                                                <<"Upgraded to", users'[u].rank>>)}) ]_vars

\* a user has been upgraded to VIP for 5000 coins
C17_Witness ==
    /\ reply.op = "upgrade" /\ reply.status = "upgraded"
    /\ reply.user \in DOMAIN users
    /\ users[reply.user].rank = "VIP"
    /\ BagIn(transaction_row(reply.user, "rank_upgrade", -5000, <<"Upgraded to", "VIP">>),
             transactions)

-----------------------------------------------------------------------------
(* Properties of the level functions *)

\* C13: for every xp >= 0 the level calculate_level returns brackets xp:
\* calculate_xp_for_level(level) <= xp < calculate_xp_for_level(level + 1).
C13_LevelBracketsXp ==
    calc.fn = "calculate_level" =>
        /\ calc.level >= 1
        /\ calc.total_xp <= calc.arg
        /\ calc.arg < calc.next_xp

\* 812 xp is evaluated: the first xp of level 5, below the 1317 of level 6
C13_Witness ==
    /\ calc.fn = "calculate_level" /\ calc.arg = 812
    /\ calc.level = 5 /\ calc.total_xp = 812 /\ calc.next_xp = 1317

\* C14: for every level >= 1 the cumulative threshold does not decrease with
\* the level and calculate_level maps the threshold of a level back to that
\* level; calculate_level(0) is 1.
C14_ThresholdsInvertible ==
    /\ calc.fn = "calculate_xp_for_level" =>
          /\ calc.total_xp <= calc.next_xp
          /\ calc.level = calc.arg
    /\ (calc.fn = "calculate_level" /\ calc.arg = 0) => calc.level = 1

\* the threshold of level 12 is evaluated and maps back to level 12
C14_Witness ==
    /\ calc.fn = "calculate_xp_for_level" /\ calc.arg = 12
    /\ calc.total_xp = 17036 /\ calc.level = 12

\* C15: the requirements of levels 1 to 5 are 100, 150, 225, 337, 505 (each
\* the previous one times 3/2, truncated) and the cumulative thresholds of
\* levels 1 to 5 are 0, 100, 250, 475, 812.
C15_ThresholdValues ==
    (calc.fn = "calculate_xp_for_level" /\ calc.arg \in 1 .. 5) =>
        /\ calc.total_xp = <<0, 100, 250, 475, 812>>[calc.arg]
        /\ calc.next_xp - calc.total_xp = <<100, 150, 225, 337, 505>>[calc.arg]

\* the threshold of level 5 is evaluated: 812, and 505 more for level 6
C15_Witness ==
    /\ calc.fn = "calculate_xp_for_level" /\ calc.arg = 5
    /\ calc.total_xp = 812 /\ calc.next_xp - calc.total_xp = 505

-----------------------------------------------------------------------------
(* Properties of the users table over a sequence of events *)

\* C16: across every step of every sequence of events the xp of every user
\* is non-negative and not lower than before the step.
C16_XpNeverDecreases ==
    [][ /\ \A u \in DOMAIN users' : users'[u].xp >= 0
        /\ \A u \in DOMAIN users :
              /\ u \in DOMAIN users'
              /\ users'[u].xp >= users[u].xp ]_vars

\* a user has earned 600 xp or more and has bought something since
C16_Witness ==
    \E u \in DOMAIN users :
        /\ users[u].xp >= 600
        /\ \E item_index \in 1 .. Len(SHOP_ITEMS) :
              BagIn(transaction_row(u, "purchase", -SHOP_ITEMS[item_index].price,
                                    <<"Bought", SHOP_ITEMS[item_index].name>>),
                    transactions)

\* C18: the first event that refers to an unknown id creates its row with
\* coins 100, xp 0, level 1, rank Newbie, daily_streak 0, total_messages 0
\* and no last_daily (a group message then adds its own reward to it);
\* get_or_create_user leaves a stored row as it is; no step deletes a row
\* or changes its join_date.
C18_LazyCreation ==
    [][ /\ \A u \in DOMAIN users :
              /\ u \in DOMAIN users'
              /\ users'[u].join_date = users[u].join_date
              /\ get_or_create_user(users, u, UserName(u), FirstName(u)) = users
              /\ (start_command(u) \/ profile_command(u) \/ shop_command(u))
                    => users' = users
        /\ \A u \in DOMAIN users' \ DOMAIN users :
              /\ reply'.user = u
              /\ users'[u].rank = "Newbie"
              /\ users'[u].level = 1
              /\ users'[u].daily_streak = 0
              /\ users'[u].last_daily = None
              /\ users'[u].join_date = today
              /\ IF reply'.op = "message"
                 THEN /\ users'[u].coins = 100 + COINS_PER_MESSAGE
                      /\ users'[u].xp = XP_PER_MESSAGE
                      /\ users'[u].total_messages = 1
                 ELSE /\ users'[u].coins = 100
                      /\ users'[u].xp = 0
                      /\ users'[u].total_messages = 0 ]_vars

\* a row created on an earlier day has been looked up and updated today
C18_Witness ==
    \E u \in DOMAIN users :
        /\ users[u].join_date < today
        /\ users[u].last_active = today
        /\ users[u].total_messages >= 2

-----------------------------------------------------------------------------
(* Properties of handlers interleaved at their store calls *)

\* C19: the handling of one event writes the user's row once: a handler that
\* has written the row (it is at the logging of the level-up, at the second
\* read, at the bonus or at the logging of a debit) does not change the users
\* table in its later steps, so no row between two writes of one event exists.
C19_SingleWrite ==
    [][ \A p \in Procs :
          ( /\ pc[p] \in {"message_log", "bonus_read", "bonus_write",
                          "buy_log", "upgrade_log"}
            /\ pc'[p] # pc[p] ) => users' = users ]_vars

\* the sum of the amounts of the rows of `rows`, each counted as often as it
\* is in the bag
RECURSIVE SumAmounts(_, _)
SumAmounts(bag, rows) ==
    IF rows = {}
    THEN 0
    ELSE LET r == CHOOSE r \in rows : TRUE
         IN  CopiesIn(r, bag) * r.amount + SumAmounts(bag, rows \ {r})

\* C20: however the store calls of two events of one user interleave, once
\* both are handled the row and the logs are those of handling them one after
\* the other: every message is counted and rewarded, and the coins are what
\* the messages earned minus what the logged debits spent.
C20_Serializable ==
    (\A p \in Procs : pc[p] = "idle") =>
        \A u \in DOMAIN users :
            /\ \E n \in StoredMsgs : users[u].total_messages = n + msgs
            /\ users[u].xp = users[u].total_messages * XP_PER_MESSAGE
            /\ users[u].coins =
                  after_messages(u, users[u].total_messages).coins
                    + SumAmounts(transactions,
                                 {r \in BagToSet(transactions) : r.user_id = u})

-----------------------------------------------------------------------------
(* Properties of handlers in which a store call raises *)

\* C21: an event during which a store call raises has no partial effect: the
\* users table and both logs are as before the event (no debit or reward
\* without its log row, no level-up without its bonus).
C21_NoPartialEffect ==
    [][ \A u \in AllUserIds :
          ( \/ \E fault \in MessageCalls : handle_message_fault(u, fault)
            \/ \E item_index \in BuyIndices, fault \in DebitCalls :
                  handle_shop_purchase_fault(u, item_index, fault)
            \/ \E word \in UpgradeButtons, fault \in DebitCalls :
                  handle_rank_upgrade_fault(u, word, fault) ) =>
              /\ users' = users
              /\ transactions' = transactions
              /\ level_ups' = level_ups ]_vars

-----------------------------------------------------------------------------
(* Properties of the logs and of the streak *)

\* C22: every step that changes the coins or the xp of a user appends a
\* transaction row of that user, of type message_reward, daily_reward,
\* purchase or rank_upgrade, whose amount is the signed change of the coins.
C22_EveryChangeLogged ==
    [][ \A u \in DOMAIN users' :
          ( \/ users'[u].coins # RowOf(u).coins
            \/ users'[u].xp # RowOf(u).xp ) =>
              \E r \in BagToSet(transactions') :
                  /\ CopiesIn(r, transactions') = CopiesIn(r, transactions) + 1
                  /\ r.user_id = u
                  /\ r.type \in {"message_reward", "daily_reward", "purchase",
                                 "rank_upgrade"}
                  /\ r.amount = users'[u].coins - RowOf(u).coins ]_vars

-----------------------------------------------------------------------------
(* Balance conservation *)

\* the rows of user u in a log table, as a bag
RowsOfUser(bag, u) ==
    [r \in {x \in BagToSet(bag) : x.user_id = u} |-> CopiesIn(r, bag)]

\* C24: when events are handled one after the other and no store call fails,
\* the coins of every user are 100, plus COINS_PER_MESSAGE for every message
\* counted in total_messages, plus 50 for every level_ups row of the user,
\* plus the sum of the amounts of the user's transactions.
C24_BalanceConservation ==
    \A u \in DOMAIN users :
        users[u].coins =
            100 + COINS_PER_MESSAGE * users[u].total_messages
                + 50 * BagCardinality(RowsOfUser(level_ups, u))
                + SumAmounts(transactions, DOMAIN RowsOfUser(transactions, u))

\* a user has reached level 4 with three level_ups rows and has then bought
\* the 500-coin item
C24_Witness ==
    \E u \in DOMAIN users :
        /\ users[u].level = 4
        /\ BagCardinality(RowsOfUser(level_ups, u)) = 3
        /\ SumAmounts(transactions, DOMAIN RowsOfUser(transactions, u)) = -500
        /\ users[u].coins = 100 + COINS_PER_MESSAGE * users[u].total_messages + 150 - 500

====
